---- MODULE Spec2Model ----
(***************************************************************************)
(* LanguageServerProxy: a proxy that multiplexes callers onto one          *)
(* language-server connection, which it either dials (connect) or accepts  *)
(* (awaitServerConnection).  Every JavaScript turn of the event loop (a    *)
(* public method up to its first await, the continuation after an await,   *)
(* a socket or server event handler) is one action.                        *)
(*                                                                         *)
(* Attempts (Cancelable), sockets, listening servers and channels          *)
(* (MessageConnection) are numbered in creation order; 0 stands for null.  *)
(***************************************************************************)
EXTENDS Naturals, Sequences, FiniteSets

\* ---- bounds of the model ------------------------------------------------
MaxCtl == 2
MaxLog == 2

\* ---- inputs ---------------------------------------------------------------
Callers == {1, 2}
Ports == {1, 2}
InitialPort == 1
Errors == {"E1", "E2"}
\* each caller makes one call, so at most this many sockets and servers exist
Ids == 1..Cardinality(Callers)

NoValue == "none"
RequestCancelled == "RequestCancelled: Server closed"
ConnectionClosed == "ConnectionClosed"
BackendError == "BackendError"
Canceled == "canceled"
BindError == "EADDRINUSE"
Result42 == "42"
\* the severities of a log-message notification
MessageTypes == {"Error", "Warning", "Info", "Log"}

VARIABLES
  closed,            \* this.closed
  initialized,       \* this.initialized
  error,             \* this.error (NoValue = null)
  targetPort,        \* this.targetPort
  socket,            \* this.socket: the socket the last dial created (0 = unset)
  clientConnection,  \* this.clientConnection: a channel, or 0
  connectingPromise, \* this.connectingPromise: an attempt, or 0
  attempts,          \* every Cancelable created
  sockets,           \* every socket: dialled by connect() or accepted by a server
  servers,           \* every net.Server awaitServerConnection created
  channels,          \* every MessageConnection created
  callers,           \* the callers' positions in the async methods
  emitted,           \* number of 'connect', 'close' and 'exit' events emitted
  nCtl,              \* number of changePort / setError / exit calls so far
  window,            \* number of changePort / setError / socket-close so far
  cancelPort,        \* the port a changePort that cancelled an attempt set, or 0
  verbose,           \* this.lspOptions.verbose
  logger             \* the calls made on this.logger by the notification handler

vars == <<closed, initialized, error, targetPort, socket, clientConnection,
          connectingPromise, attempts, sockets, servers, channels, callers,
          emitted, nCtl, window, cancelPort, verbose, logger>>

logVars == <<verbose, logger>>

proxyVars == <<closed, initialized, error, targetPort, socket, clientConnection,
               connectingPromise>>
netVars == <<attempts, sockets, servers, channels>>

IdleCaller ==
  [pc |-> "idle", op |-> NoValue, att |-> 0, conn |-> 0,
   out |-> NoValue, result |-> NoValue, error |-> NoValue,
   win |-> 0, noChan |-> FALSE, cp |-> 0, wasClosed |-> FALSE]

Init ==
  /\ closed = FALSE
  /\ initialized = FALSE
  /\ error = NoValue
  /\ targetPort = InitialPort
  /\ socket = 0
  /\ clientConnection = 0
  /\ connectingPromise = 0
  /\ attempts = <<>>
  /\ sockets = <<>>
  /\ servers = <<>>
  /\ channels = <<>>
  /\ callers = [c \in Callers |-> IdleCaller]
  /\ emitted = [connect |-> 0, close |-> 0, exit |-> 0]
  /\ nCtl = 0
  /\ window = 0
  /\ cancelPort = 0
  /\ verbose = FALSE
  /\ logger = <<>>

\* ---- Cancelable: a promise that can be cancelled before it settles --------
NewAttempt(kind, server) ==
  [kind |-> kind, state |-> "pending", value |-> 0, reason |-> NoValue,
   server |-> server]

\* resolve(ch): settles a pending attempt, no effect on a settled one
Resolve(atts, a, ch) ==
  IF atts[a].state = "pending"
    THEN [atts EXCEPT ![a].state = "resolved", ![a].value = ch]
    ELSE atts

\* reject(reason): settles a pending attempt, no effect on a settled one
Reject(atts, a, reason) ==
  IF atts[a].state = "pending"
    THEN [atts EXCEPT ![a].state = "rejected", ![a].reason = reason]
    ELSE atts

\* cancel(reason): a no-op after settlement; before it, the result rejects with
\* the reason
CancelAttempts(a, reason) == Reject(attempts, a, reason)

\* cancel(reason) runs the hook awaitServerConnection registered: server.close()
CancelServers(a) ==
  IF attempts[a].state = "pending" /\ attempts[a].server # 0
    THEN [servers EXCEPT ![attempts[a].server].state = "closed"]
    ELSE servers

\* ---- MessageConnection ----------------------------------------------------
ChannelLive(ch) == sockets[channels[ch].sock].state # "closed"
ChannelUp(ch) == sockets[channels[ch].sock].state = "connected"
ChannelPort(ch) == sockets[channels[ch].sock].port

\* sendRequest / sendNotification write one frame on the channel
Send(chs, ch, msg) == [chs EXCEPT ![ch].log = Append(@, msg)]

\* ---- connect() ------------------------------------------------------------
ConnectHasChannel == clientConnection # 0

\* mutation: connect() that does not memoize the attempt in flight
ConnectNeverMemoized == FALSE

ConnectMemoized == connectingPromise # 0

\* the executor of the Cancelable that connect() creates
ConnectDial ==
  /\ attempts' = Append(attempts, NewAttempt("dial", 0))
  /\ sockets' = Append(sockets,
       [kind |-> "dial", state |-> "dialling", port |-> targetPort,
        att |-> Len(attempts) + 1, win |-> window])
  /\ socket' = Len(sockets) + 1
  /\ connectingPromise' = Len(attempts) + 1

\* the state change of one connect() call
ConnectCall ==
  IF ConnectHasChannel \/ ConnectMemoized
    THEN UNCHANGED <<attempts, sockets, socket, connectingPromise>>
    ELSE ConnectDial

\* what the caller of connect() awaits: the channel itself, or the attempt
Awaiting(c, op) ==
  [IdleCaller EXCEPT
     !.pc = "awaitConn", !.op = op,
     !.att = IF ConnectHasChannel THEN 0 ELSE connectingPromise',
     !.conn = IF ConnectHasChannel THEN clientConnection ELSE 0,
     !.win = window, !.noChan = ~ConnectHasChannel, !.cp = cancelPort,
     !.wasClosed = closed]

CanStart(c) ==
  /\ callers[c].pc = "idle"
  /\ IF c = 1 THEN TRUE ELSE callers[c - 1].pc # "idle"

Connect(c) ==
  /\ CanStart(c)
  /\ ConnectCall
  /\ callers' = [callers EXCEPT ![c] = Awaiting(c, "connect")]
  /\ UNCHANGED <<closed, initialized, error, targetPort, clientConnection,
                 servers, channels, emitted, nCtl, window, cancelPort>>
  /\ UNCHANGED logVars

\* ---- awaitServerConnection() --------------------------------------------
\* the executor of the Cancelable that awaitServerConnection() creates
AwaitListen ==
  /\ attempts' = Append(attempts, NewAttempt("listen", Len(servers) + 1))
  /\ servers' = Append(servers,
       [state |-> "binding", port |-> targetPort, att |-> Len(attempts) + 1,
        win |-> window])
  /\ connectingPromise' = Len(attempts) + 1

AwaitServerConnection(c) ==
  /\ CanStart(c)
  /\ IF ConnectMemoized
       THEN UNCHANGED <<attempts, servers, connectingPromise>>
       ELSE AwaitListen
  /\ callers' = [callers EXCEPT ![c] =
       [IdleCaller EXCEPT !.pc = "awaitConn", !.op = "await",
          !.att = connectingPromise', !.win = window,
          !.noChan = ~ConnectHasChannel, !.cp = cancelPort,
          !.wasClosed = closed]]
  /\ UNCHANGED <<closed, initialized, error, targetPort, socket,
                 clientConnection, sockets, channels, emitted, nCtl, window,
                 cancelPort>>
  /\ UNCHANGED logVars

\* ---- handleRequest(), initialize(), shutdown(): up to the first await ------
\* the response handleRequest starts from (lines 65-69)
InitialResponseError == RequestCancelled

Done(c, op, out, result, err) ==
  [callers[c] EXCEPT !.pc = "done", !.op = op, !.out = out,
     !.result = result, !.error = err]

\* mutation: handleRequest without the closed check
HandleRequestIgnoresClosed(c, op) ==
  /\ ConnectCall
  /\ callers' = [callers EXCEPT ![c] = Awaiting(c, op)]

HandleRequestClosed(c, op) ==
  /\ callers' = [callers EXCEPT ![c] =
       [Done(c, op, "response", NoValue, RequestCancelled)
          EXCEPT !.wasClosed = TRUE]]
  /\ UNCHANGED <<attempts, sockets, socket, connectingPromise>>

HandleRequestOpen(c, op) ==
  /\ ConnectCall
  /\ callers' = [callers EXCEPT ![c] = Awaiting(c, op)]

HandleRequest(c, isNotification) ==
  /\ CanStart(c)
  /\ LET op == IF isNotification THEN "notify" ELSE "request" IN
       IF closed THEN HandleRequestClosed(c, op) ELSE HandleRequestOpen(c, op)
  /\ UNCHANGED <<closed, initialized, error, targetPort, clientConnection,
                 servers, channels, emitted, nCtl, window, cancelPort>>
  /\ UNCHANGED logVars

InitializeFails == error # NoValue

Initialize(c) ==
  /\ CanStart(c)
  /\ IF InitializeFails
       THEN /\ callers' = [callers EXCEPT ![c] =
                 [Done(c, "initialize", "rejected", NoValue, error)
                    EXCEPT !.wasClosed = closed]]
            /\ UNCHANGED <<attempts, sockets, socket, connectingPromise>>
       ELSE /\ ConnectCall
            /\ callers' = [callers EXCEPT ![c] = Awaiting(c, "initialize")]
  /\ UNCHANGED <<closed, initialized, error, targetPort, clientConnection,
                 servers, channels, emitted, nCtl, window, cancelPort>>
  /\ UNCHANGED logVars

Shutdown(c) ==
  /\ CanStart(c)
  /\ ConnectCall
  /\ callers' = [callers EXCEPT ![c] = Awaiting(c, "shutdown")]
  /\ UNCHANGED <<closed, initialized, error, targetPort, clientConnection,
                 servers, channels, emitted, nCtl, window, cancelPort>>
  /\ UNCHANGED logVars

\* ---- the continuation after `await this.connect()` -----------------------
Settled(c) ==
  IF callers[c].att = 0 THEN TRUE
                        ELSE attempts[callers[c].att].state # "pending"

Rejected(c) ==
  IF callers[c].att = 0 THEN FALSE
                        ELSE attempts[callers[c].att].state = "rejected"

Conn(c) ==
  IF callers[c].att = 0 THEN callers[c].conn
                        ELSE attempts[callers[c].att].value

Method(op) == IF op \in {"request", "notify"} THEN "foo" ELSE op

\* the awaited promise rejected: the async method rejects with its reason
ConnectRejected(c) ==
  /\ callers' = [callers EXCEPT ![c] =
       Done(c, callers[c].op, "rejected", NoValue,
            attempts[callers[c].att].reason)]
  /\ UNCHANGED channels

\* the awaited promise resolved: connect() and awaitServerConnection() callers
\* hold the channel; the others write their frame on it
ConnectResolved(c) ==
  LET op == callers[c].op
      ch == Conn(c)
  IN CASE op \in {"connect", "await"} ->
            /\ callers' = [callers EXCEPT ![c] =
                 [Done(c, op, "resolved", NoValue, NoValue) EXCEPT !.conn = ch]]
            /\ UNCHANGED channels
       [] op = "notify" ->
            /\ callers' = [callers EXCEPT ![c] =
                 [Done(c, op, "response", NoValue, InitialResponseError)
                    EXCEPT !.conn = ch]]
            /\ channels' = Send(channels, ch, "notify")
       [] OTHER ->
            /\ channels' = Send(channels, ch, Method(op))
            /\ callers' = [callers EXCEPT ![c] =
                 IF ChannelLive(ch)
                   THEN [callers[c] EXCEPT !.pc = "awaitResp", !.conn = ch]
                   ELSE [Done(c, op,
                              IF op = "request" THEN "response" ELSE "rejected",
                              NoValue, ConnectionClosed) EXCEPT !.conn = ch]]

AfterConnect(c) ==
  /\ callers[c].pc = "awaitConn"
  /\ Settled(c)
  /\ IF Rejected(c) THEN ConnectRejected(c) ELSE ConnectResolved(c)
  /\ UNCHANGED <<proxyVars, attempts, sockets, servers, emitted, nCtl, window,
                 cancelPort>>
  /\ UNCHANGED logVars

\* ---- the continuation after `await conn.sendRequest(...)` ----------------
\* handleRequest: the result is stored in the response built at lines 65-69,
\* a rejection replaces its error (lines 76-80)
RequestAnswered(c, ok, err) ==
  IF ok THEN Done(c, "request", "response", Result42, InitialResponseError)
        ELSE Done(c, "request", "response", NoValue, err)

\* initialize: the .then() callback of lines 110-118
InitializeThen(c) ==
  /\ channels' = Send(channels, callers[c].conn, "initialized")
  /\ initialized' = TRUE
  /\ callers' = [callers EXCEPT ![c] =
       Done(c, "initialize", "resolved", Result42, NoValue)]

\* mutation: the handshake completed on the failure path as well
InitializeRejectedMarks(c, err) ==
  /\ callers' = [callers EXCEPT ![c] =
       Done(c, "initialize", "rejected", NoValue, err)]
  /\ channels' = Send(channels, callers[c].conn, "initialized")
  /\ initialized' = TRUE

InitializeRejected(c, err) ==
  /\ callers' = [callers EXCEPT ![c] =
       Done(c, "initialize", "rejected", NoValue, err)]
  /\ UNCHANGED <<channels, initialized>>

ShutdownAnswered(c, ok, err) ==
  IF ok THEN Done(c, "shutdown", "resolved", Result42, NoValue)
        ELSE Done(c, "shutdown", "rejected", NoValue, err)

\* what a caller suspended in sendRequest becomes when the request settles
Answered(c, ok, err) ==
  IF callers[c].op = "request" THEN RequestAnswered(c, ok, err)
                               ELSE ShutdownAnswered(c, ok, err)

\* the backend answers the pending request of caller c
Response(c, ok) ==
  /\ callers[c].pc = "awaitResp"
  /\ ChannelUp(callers[c].conn)
  /\ IF callers[c].op = "initialize"
       THEN IF ok THEN InitializeThen(c) ELSE InitializeRejected(c, BackendError)
       ELSE /\ callers' = [callers EXCEPT ![c] = Answered(c, ok, BackendError)]
            /\ UNCHANGED <<channels, initialized>>
  /\ UNCHANGED <<closed, error, targetPort, socket, clientConnection,
                 connectingPromise, attempts, sockets, servers, emitted, nCtl,
                 window, cancelPort>>
  /\ UNCHANGED logVars

\* ---- exit() -------------------------------------------------------------
\* mutation: exit() that only closes, without telling the server
ExitNeverSends == FALSE

ExitSends == clientConnection # 0

Exit ==
  /\ nCtl < MaxCtl
  /\ nCtl' = nCtl + 1
  /\ closed' = TRUE
  /\ channels' = IF ExitSends
       THEN Send(Send(channels, clientConnection, "shutdown"),
                 clientConnection, "exit")
       ELSE channels
  /\ emitted' = [emitted EXCEPT !.exit = @ + 1]
  /\ UNCHANGED <<initialized, error, targetPort, socket, clientConnection,
                 connectingPromise, attempts, sockets, servers, callers,
                 window, cancelPort>>
  /\ UNCHANGED logVars

\* ---- changePort(), setError() ---------------------------------------------
InFlight ==
  connectingPromise # 0 /\ attempts[connectingPromise].state = "pending"

ChangePort(port) ==
  /\ nCtl < MaxCtl
  /\ nCtl' = nCtl + 1
  /\ window' = window + 1
  /\ IF port # targetPort
       THEN /\ targetPort' = port
            /\ cancelPort' = IF InFlight THEN port ELSE 0
            /\ IF connectingPromise # 0
                 THEN /\ attempts' = CancelAttempts(connectingPromise, Canceled)
                      /\ servers' = CancelServers(connectingPromise)
                      /\ connectingPromise' = 0
                 ELSE UNCHANGED <<attempts, servers, connectingPromise>>
       ELSE UNCHANGED <<targetPort, cancelPort, attempts, servers,
                        connectingPromise>>
  /\ UNCHANGED <<closed, initialized, error, socket, clientConnection, sockets,
                 channels, callers, emitted>>
  /\ UNCHANGED logVars

\* mutation: setError() that cancels but does not record the error
SetErrorForgets(err) == NoValue

SetErrorRecords(err) == err

\* mutation: setError() that cancels without passing the error on
SetErrorCancelsBare(err) == Canceled

\* the reason setError() cancels the attempt with: cancel(error)
SetErrorCancelReason(err) == err

SetError(err) ==
  /\ nCtl < MaxCtl
  /\ nCtl' = nCtl + 1
  /\ window' = window + 1
  /\ IF connectingPromise # 0
       THEN /\ attempts' = CancelAttempts(connectingPromise, SetErrorCancelReason(err))
            /\ servers' = CancelServers(connectingPromise)
            /\ connectingPromise' = 0
       ELSE UNCHANGED <<attempts, servers, connectingPromise>>
  /\ error' = SetErrorRecords(err)
  /\ UNCHANGED <<closed, initialized, targetPort, socket, clientConnection,
                 sockets, channels, callers, emitted, cancelPort>>
  /\ UNCHANGED logVars

\* ---- socket and server events -------------------------------------------
NewChannel(sock) == [sock |-> sock, log |-> <<>>]

\* the 'connect' handler of a socket connect() dialled (lines 204-212): the
\* channel is built over this.socket, the socket of the latest dial
SocketConnect(s) ==
  /\ s \in DOMAIN sockets
  /\ sockets[s].kind = "dial"
  /\ sockets[s].state = "dialling"
  /\ sockets' = [sockets EXCEPT ![s].state = "connected"]
  /\ channels' = Append(channels, NewChannel(socket))
  /\ clientConnection' = Len(channels) + 1
  /\ attempts' = Resolve(attempts, sockets[s].att, Len(channels) + 1)
  /\ emitted' = [emitted EXCEPT !.connect = @ + 1]
  /\ UNCHANGED <<closed, initialized, error, targetPort, socket,
                 connectingPromise, servers, callers, nCtl, window, cancelPort>>
  /\ UNCHANGED logVars

\* the callers whose request is pending on a channel over socket s
PendingOn(s) ==
  {c \in Callers : callers[c].pc = "awaitResp" /\ channels[callers[c].conn].sock = s}

\* a request pending when its channel closes settles with an error
FailPending(s) ==
  [c \in Callers |->
     IF c \in PendingOn(s)
       THEN IF callers[c].op = "initialize"
              THEN Done(c, "initialize", "rejected", NoValue, ConnectionClosed)
              ELSE Answered(c, FALSE, ConnectionClosed)
       ELSE callers[c]]

\* onSocketClosed() (lines 232-236)
\* mutation: onSocketClosed() that keeps the memoized attempt
OnSocketClosedKeepsAttempt ==
  /\ clientConnection' = 0
  /\ connectingPromise' = connectingPromise
  /\ emitted' = [emitted EXCEPT !.close = @ + 1]

OnSocketClosed ==
  /\ clientConnection' = 0
  /\ connectingPromise' = 0
  /\ emitted' = [emitted EXCEPT !.close = @ + 1]

\* the 'close' event of a dialled or accepted socket: a failed dial, or the end
\* of an established connection
SocketClose(s) ==
  /\ s \in DOMAIN sockets
  /\ sockets[s].state # "closed"
  /\ sockets' = [sockets EXCEPT ![s].state = "closed"]
  /\ callers' = FailPending(s)
  /\ OnSocketClosed
  /\ window' = window + 1
  /\ UNCHANGED <<closed, initialized, error, targetPort, socket, attempts,
                 servers, channels, nCtl, cancelPort>>
  /\ UNCHANGED logVars

\* server.listen()'s callback: the port is bound, the error listener removed
ServerListening(v) ==
  /\ v \in DOMAIN servers
  /\ servers[v].state = "binding"
  /\ servers' = [servers EXCEPT ![v].state = "listening"]
  /\ UNCHANGED <<proxyVars, attempts, sockets, channels, callers, emitted,
                 nCtl, window, cancelPort>>
  /\ UNCHANGED logVars

\* the server's 'error' event before it listens (port in use): rej
ServerError(v) ==
  /\ v \in DOMAIN servers
  /\ servers[v].state = "binding"
  /\ servers' = [servers EXCEPT ![v].state = "failed"]
  /\ attempts' = Reject(attempts, servers[v].att, BindError)
  /\ UNCHANGED <<proxyVars, sockets, channels, callers, emitted, nCtl, window,
                 cancelPort>>
  /\ UNCHANGED logVars

\* mutation: a listener left open after it accepted a connection
ServerKeptOpen == "listening"

\* server.close() in the connection listener: the server stops listening
ServerAfterAccept == "closed"

\* the connection listener of the server (lines 147-161)
ServerAccept(v) ==
  /\ v \in DOMAIN servers
  /\ servers[v].state = "listening"
  /\ initialized' = FALSE
  /\ servers' = [servers EXCEPT ![v].state = ServerAfterAccept]
  /\ emitted' = [emitted EXCEPT !.connect = @ + 1]
  /\ sockets' = Append(sockets,
       [kind |-> "accepted", state |-> "connected", port |-> servers[v].port,
        att |-> servers[v].att, win |-> servers[v].win])
  /\ channels' = Append(channels, NewChannel(Len(sockets) + 1))
  /\ clientConnection' = Len(channels) + 1
  /\ attempts' = Resolve(attempts, servers[v].att, Len(channels) + 1)
  /\ UNCHANGED <<closed, error, targetPort, socket, connectingPromise, callers,
                 nCtl, window, cancelPort>>
  /\ UNCHANGED logVars

\* ---- the specification ----------------------------------------------------
Next ==
  \/ \E c \in Callers : Connect(c)
  \/ \E c \in Callers : AwaitServerConnection(c)
  \/ \E c \in Callers, isNotification \in BOOLEAN : HandleRequest(c, isNotification)
  \/ \E c \in Callers : Initialize(c)
  \/ \E c \in Callers : Shutdown(c)
  \/ \E c \in Callers : AfterConnect(c)
  \/ \E c \in Callers, ok \in BOOLEAN : Response(c, ok)
  \/ Exit
  \/ \E port \in Ports : ChangePort(port)
  \/ \E err \in Errors : SetError(err)
  \/ \E s \in Ids : SocketConnect(s)
  \/ \E s \in Ids : SocketClose(s)
  \/ \E v \in Ids : ServerListening(v)
  \/ \E v \in Ids : ServerError(v)
  \/ \E v \in Ids : ServerAccept(v)

Spec == Init /\ [][Next]_vars

\* ---- the log-message notification handler --------------------------------
\* mutation: a warning logged at warn level whatever the verbose flag
LogLevelWarnAlways(type, verb) ==
  CASE type = "Log" -> "debug"
    [] type = "Info" -> IF verb THEN "info" ELSE "debug"
    [] type = "Warning" -> "warn"
    [] type = "Error" -> IF verb THEN "error" ELSE "warn"

\* the logger method the handler calls (the switch of lines 241-266)
LogLevel(type, verb) ==
  CASE type = "Log" -> "debug"
    [] type = "Info" -> IF verb THEN "info" ELSE "debug"
    [] type = "Warning" -> IF verb THEN "warn" ELSE "log"
    [] type = "Error" -> IF verb THEN "error" ELSE "warn"

\* the backend sends a log-message notification on a connected channel; every
\* channel has the handler registered when it is created
LogMessage(type) ==
  /\ \E ch \in DOMAIN channels : ChannelUp(ch)
  /\ Len(logger) < MaxLog
  /\ logger' = Append(logger,
       [type |-> type, verbose |-> verbose, level |-> LogLevel(type, verbose)])
  /\ UNCHANGED <<proxyVars, netVars, callers, emitted, nCtl, window,
                 cancelPort, verbose>>

\* the configuration changes: the flag is read at notification time
SetVerbose(verb) ==
  /\ verbose # verb
  /\ verbose' = verb
  /\ UNCHANGED <<proxyVars, netVars, callers, emitted, nCtl, window,
                 cancelPort, logger>>

\* a proxy that dials its server and receives its log messages
LogNext ==
  \/ \E c \in Callers : Connect(c)
  \/ \E s \in Ids : SocketConnect(s)
  \/ \E s \in Ids : SocketClose(s)
  \/ \E type \in MessageTypes : LogMessage(type)
  \/ \E verb \in BOOLEAN : SetVerbose(verb)

LogSpec == Init /\ [][LogNext]_vars

\* ======================= the claims ========================================
\* the callers that went through connect() (directly, or from handleRequest,
\* initialize or shutdown) while no channel existed
NoChannelCall(c) ==
  /\ callers[c].pc # "idle"
  /\ callers[c].op # "await"
  /\ callers[c].noChan

\* the sockets dialled and servers opened in window w, a window being a
\* stretch with no changePort, setError or socket close in it
OpenedIn(w) ==
  Cardinality({s \in 1..Len(sockets) : sockets[s].kind = "dial" /\ sockets[s].win = w})
  + Cardinality({v \in 1..Len(servers) : servers[v].win = w})

OwnedBy(a) ==
  Cardinality({s \in 1..Len(sockets) : sockets[s].kind = "dial" /\ sockets[s].att = a})
  + Cardinality({v \in 1..Len(servers) : servers[v].att = a})

Calls(c, ops) ==
  /\ callers[c].pc = "idle"
  /\ callers'[c].pc # "idle"
  /\ callers'[c].op \in ops

NoSocketActivity ==
  UNCHANGED <<attempts, sockets, servers, channels, socket, clientConnection,
              connectingPromise>>

\* C2: once closed, handleRequest (request or notification) returns the
\* response {error: RequestCancelled 'Server closed'} with no result, in the
\* same turn, and touches no attempt, socket, server or channel.
C2_ClosedHandleRequest ==
  [][\A c \in Callers :
       (closed /\ Calls(c, {"request", "notify"}))
         => /\ callers'[c].pc = "done"
            /\ callers'[c].out = "response"
            /\ callers'[c].error = RequestCancelled
            /\ callers'[c].result = NoValue
            /\ NoSocketActivity]_vars

\* a notification handled after exit() while a channel still exists
C2_Witness ==
  \E c \in Callers :
    /\ closed
    /\ callers[c].wasClosed
    /\ callers[c].op = "notify"
    /\ callers[c].pc = "done"
    /\ clientConnection # 0

\* C3: handleRequest never raises: every completed handleRequest returned a
\* response.
C3_NeverRaises ==
  \A c \in Callers :
    (callers[c].pc = "done" /\ callers[c].op \in {"request", "notify"})
      => callers[c].out = "response"

\* C4: a handleRequest made while the proxy is not closed returns a response
\* with exactly one of result and error set.
C4_ExactlyOneOfResultError ==
  \A c \in Callers :
    (~closed /\ callers[c].pc = "done" /\ callers[c].out = "response")
      => (callers[c].result = NoValue) # (callers[c].error = NoValue)

\* socket s closes in this step
Closes(s) == sockets[s].state # "closed" /\ sockets'[s].state = "closed"

\* C5: when a socket closes, every handleRequest pending on its channel
\* completes with an error response, the channel and attempt references are
\* cleared and a 'close' event is emitted; and from a state with both
\* references clear, connect() dials a new socket and memoizes a new attempt.
C5_CloseThenReconnect ==
  [][/\ \A s \in 1..Len(sockets) :
          Closes(s)
            => /\ \A c \in PendingOn(s) :
                    callers[c].op = "request"
                      => /\ callers'[c].pc = "done"
                         /\ callers'[c].out = "response"
                         /\ callers'[c].error = ConnectionClosed
                         /\ callers'[c].result = NoValue
               /\ clientConnection' = 0
               /\ connectingPromise' = 0
               /\ emitted'.close = emitted.close + 1
     /\ \A c \in Callers :
          (clientConnection = 0 /\ connectingPromise = 0
             /\ Calls(c, {"connect"}))
            => /\ Len(sockets') = Len(sockets) + 1
               /\ sockets'[Len(sockets')].state = "dialling"
               /\ socket' = Len(sockets')
               /\ connectingPromise' = Len(attempts')
               /\ Len(attempts') = Len(attempts) + 1
               /\ callers'[c].att = connectingPromise'
               /\ callers'[c].conn = 0]_vars

\* a request failed by the close of its connection, and a second socket
\* dialled by the connect() that followed
C5_Witness ==
  \E c, d \in Callers :
    /\ callers[c].op = "request"
    /\ callers[c].pc = "done"
    /\ callers[c].error = ConnectionClosed
    /\ sockets[channels[callers[c].conn].sock].state = "closed"
    /\ callers[d].op = "connect"
    /\ callers[d].win > callers[c].win
    /\ callers[d].att # 0
    /\ callers[d].att # callers[c].att
    /\ Len(sockets) = 2
    /\ sockets[2].state = "dialling"

\* C6: after a changePort(newPort) that cancelled an attempt in flight, every
\* channel a connect() call returns is a connection to newPort.
C6_ChannelToNewPort ==
  \A c \in Callers :
    (callers[c].op # "await" /\ callers[c].cp # 0 /\ callers[c].conn # 0)
      => ChannelPort(callers[c].conn) = callers[c].cp

\* C7 as stated: once setError(err) has recorded err, err is the error
\* initialize() fails with from then on, whatever is called later.
C7_FailsWithErrForever ==
  [][\A e \in Errors : error = e => error' = e]_vars

\* C7, amended: setError(err) cancels the attempt in flight with reason err,
\* clears the attempt reference and records err; a recorded error is never
\* cleared, only replaced by a later setError; and initialize() called with an
\* error recorded fails in the same turn with the error recorded last, touching
\* no attempt, socket, server or channel.
C7_StickyError ==
  [][/\ \A e \in Errors :
          SetError(e)
            => /\ error' = e
               /\ connectingPromise' = 0
               /\ InFlight =>
                    /\ attempts'[connectingPromise].state = "rejected"
                    /\ attempts'[connectingPromise].reason = e
     /\ error # NoValue => error' # NoValue
     /\ \A c \in Callers :
          (error # NoValue /\ Calls(c, {"initialize"}))
            => /\ callers'[c].pc = "done"
               /\ callers'[c].out = "rejected"
               /\ callers'[c].error = error
               /\ NoSocketActivity]_vars

\* initialize() failed at once with the error that had cancelled a caller's
\* attempt in flight
C7_Witness ==
  \E c, d \in Callers :
    /\ callers[c].op = "initialize"
    /\ callers[c].pc = "done"
    /\ callers[c].att = 0
    /\ callers[c].out = "rejected"
    /\ callers[c].error = error
    /\ error \in Errors
    /\ callers[d].att # 0
    /\ attempts[callers[d].att].state = "rejected"
    /\ attempts[callers[d].att].reason = error
    /\ connectingPromise = 0

\* C8: once closed, no step creates an attempt, a socket or a server.
C8_NoAttemptOnceClosed ==
  [][closed => /\ Len(attempts') = Len(attempts)
               /\ Len(sockets') = Len(sockets)
               /\ Len(servers') = Len(servers)]_vars

\* the frames written on channel ch in this step
Written(ch) ==
  SubSeq(channels'[ch].log, Len(channels[ch].log) + 1, Len(channels'[ch].log))

\* caller c's initialize request is answered successfully in this step
InitializeSucceeds(c) ==
  /\ callers[c].pc = "awaitResp"
  /\ callers[c].op = "initialize"
  /\ callers'[c].pc = "done"
  /\ callers'[c].out = "resolved"

\* C9: 'initialized' is written only in the turn in which the 'initialize'
\* request of some caller is answered successfully, on the channel that
\* carried the request and before that caller has its result; the initialized
\* flag is set only in such a turn; an initialize() that fails writes no
\* 'initialized' and leaves the flag alone.
C9_InitializedAfterInitialize ==
  [][/\ \A ch \in DOMAIN channels :
          (\E i \in DOMAIN Written(ch) : Written(ch)[i] = "initialized")
            => \E c \in Callers :
                 /\ InitializeSucceeds(c)
                 /\ callers[c].conn = ch
                 /\ Written(ch) = <<"initialized">>
                 /\ \E i \in DOMAIN channels[ch].log :
                      channels[ch].log[i] = "initialize"
     /\ (~initialized /\ initialized') => \E c \in Callers : InitializeSucceeds(c)
     /\ \A c \in Callers :
          InitializeSucceeds(c)
            => /\ initialized'
               /\ Written(callers[c].conn) = <<"initialized">>
     /\ \A c \in Callers :
          (callers[c].op = "initialize" /\ callers[c].pc # "done"
             /\ callers'[c].pc = "done" /\ callers'[c].out = "rejected")
            => /\ initialized' = initialized
               /\ \A ch \in DOMAIN channels :
                    \A i \in DOMAIN Written(ch) : Written(ch)[i] # "initialized"]_vars

\* an initialize() that returned its result, with the handshake on its channel
C9_Witness ==
  \E c \in Callers :
    /\ callers[c].op = "initialize"
    /\ callers[c].out = "resolved"
    /\ initialized
    /\ channels[callers[c].conn].log = <<"initialize", "initialized">>

\* exit() is called in this step
Exits == nCtl' = nCtl + 1 /\ window' = window

\* C10: exit() is one turn that sets closed, writes 'shutdown' then 'exit' on
\* the channel if and only if a channel exists, waits for nothing, emits the
\* 'exit' event and opens no connection.
C10_Exit ==
  [][Exits
       => /\ closed'
          /\ emitted'.exit = emitted.exit + 1
          /\ IF clientConnection # 0
               THEN /\ Written(clientConnection) = <<"shutdown", "exit">>
                    /\ \A ch \in DOMAIN channels :
                         ch # clientConnection => channels'[ch] = channels[ch]
               ELSE channels' = channels
          /\ UNCHANGED <<attempts, sockets, servers, socket, clientConnection,
                         connectingPromise, callers, initialized, error,
                         targetPort>>]_vars

\* exit() with a channel: both frames written and the event emitted
C10_Witness ==
  /\ closed
  /\ emitted.exit = 1
  /\ clientConnection # 0
  /\ channels[clientConnection].log = <<"shutdown", "exit">>

\* C11: exit() is idempotent: an exit() called on a proxy that is already
\* closed writes nothing on the channel and emits no second 'exit' event.
C11_ExitIdempotent ==
  [][(closed /\ Exits) => /\ channels' = channels
                          /\ emitted' = emitted]_vars

\* C12: a dial that fails (the socket closes before it connected) is surfaced
\* to the callers awaiting its attempt: once the socket of a dial attempt is
\* closed, the attempt is settled and no caller is left waiting on it.
C12_DialFailureSurfaced ==
  \A c \in Callers :
    (/\ callers[c].pc = "awaitConn"
     /\ callers[c].att # 0
     /\ attempts[callers[c].att].kind = "dial")
      => \A s \in DOMAIN sockets :
           (sockets[s].att = callers[c].att /\ sockets[s].state = "closed")
             => attempts[callers[c].att].state # "pending"

\* C13: after an attempt failed with a transport error (the listener's bind
\* error among them) the attempt reference is empty again, so that a later
\* call starts a fresh attempt: the reference never holds a rejected attempt.
C13_FailedAttemptDiscarded ==
  connectingPromise # 0 => attempts[connectingPromise].state # "rejected"

\* C14: each log-message notification makes exactly one logger call, at the
\* level the table gives for its severity and the verbose flag read at that
\* time: Log -> debug; Info -> info if verbose, else debug; Warning -> warn if
\* verbose, else log; Error -> error if verbose, else warn.
C14_SeverityMapping ==
  [][logger' # logger
       => /\ Len(logger') = Len(logger) + 1
          /\ SubSeq(logger', 1, Len(logger)) = logger
          /\ LET call == logger'[Len(logger')] IN
               /\ call.verbose = verbose
               /\ call.type = "Log" => call.level = "debug"
               /\ (call.type = "Info" /\ call.verbose) => call.level = "info"
               /\ (call.type = "Info" /\ ~call.verbose) => call.level = "debug"
               /\ (call.type = "Warning" /\ call.verbose) => call.level = "warn"
               /\ (call.type = "Warning" /\ ~call.verbose) => call.level = "log"
               /\ (call.type = "Error" /\ call.verbose) => call.level = "error"
               /\ (call.type = "Error" /\ ~call.verbose) => call.level = "warn"]_vars

\* the same warning logged at log level, then at warn level once verbose is set
C14_Witness ==
  /\ Len(logger) = 2
  /\ logger[1] = [type |-> "Warning", verbose |-> FALSE, level |-> "log"]
  /\ logger[2] = [type |-> "Warning", verbose |-> TRUE, level |-> "warn"]

\* the attempts not yet settled whose socket or listener is still open
OpenAttempts ==
  {a \in DOMAIN attempts :
     /\ attempts[a].state = "pending"
     /\ \/ \E s \in DOMAIN sockets :
             sockets[s].att = a /\ sockets[s].state # "closed"
        \/ \E v \in DOMAIN servers :
             servers[v].att = a /\ servers[v].state \in {"binding", "listening"}}

LiveChannels == {ch \in DOMAIN channels : ChannelLive(ch)}

\* C15: at every moment the proxy has at most one live channel and at most one
\* unsettled attempt with an open socket or listener.
C15_AtMostOneChannelAndAttempt ==
  /\ Cardinality(LiveChannels) <= 1
  /\ Cardinality(OpenAttempts) <= 1

\* caller c resumes after the attempt it awaited was rejected
ResumesRejected(c) ==
  /\ callers[c].pc = "awaitConn"
  /\ callers'[c].pc = "done"
  /\ callers[c].att # 0
  /\ attempts[callers[c].att].state = "rejected"

\* C16: changePort to another port rejects the attempt in flight with the
\* default reason and setError(err) rejects it with err; a rejected attempt
\* stays rejected with its reason, also when its socket connects later; and a
\* caller that awaited it gets the rejection and no channel.
C16_CancelRejects ==
  [][/\ (targetPort' # targetPort /\ InFlight)
          => /\ attempts'[connectingPromise].state = "rejected"
             /\ attempts'[connectingPromise].reason = Canceled
     /\ \A e \in Errors :
          (SetError(e) /\ InFlight)
            => /\ attempts'[connectingPromise].state = "rejected"
               /\ attempts'[connectingPromise].reason = e
     /\ \A a \in DOMAIN attempts :
          attempts[a].state = "rejected" => attempts'[a] = attempts[a]
     /\ \A c \in Callers :
          ResumesRejected(c)
            => /\ callers'[c].out = "rejected"
               /\ callers'[c].error = attempts[callers[c].att].reason
               /\ callers'[c].conn = 0]_vars

\* a dial cancelled by setError whose socket connected afterwards, and the
\* caller that awaited it rejected with the error
C16_Witness ==
  \E c \in Callers, s \in DOMAIN sockets :
    /\ callers[c].pc = "done"
    /\ callers[c].out = "rejected"
    /\ callers[c].error \in Errors
    /\ callers[c].conn = 0
    /\ callers[c].att # 0
    /\ attempts[callers[c].att].state = "rejected"
    /\ attempts[callers[c].att].reason = callers[c].error
    /\ sockets[s].att = callers[c].att
    /\ sockets[s].state = "connected"

\* a server accepts a connection in this step
Accepts ==
  /\ Len(sockets') = Len(sockets) + 1
  /\ sockets'[Len(sockets')].kind = "accepted"

AcceptedFor(a) ==
  {s \in DOMAIN sockets' : sockets'[s].kind = "accepted" /\ sockets'[s].att = a}

\* C17: awaitServerConnection() with an attempt memoized returns it and opens
\* no listener; a listener accepts one connection only, being closed in the
\* turn that accepts it; the accepted socket carries the new channel, which
\* resolves the attempt; a bind error rejects the attempt; cancelling the
\* attempt closes the listener and rejects with the cancel reason.
C17_SingleShotAccept ==
  [][/\ \A c \in Callers :
          (Calls(c, {"await"}) /\ connectingPromise # 0)
            => /\ servers' = servers
               /\ attempts' = attempts
               /\ connectingPromise' = connectingPromise
               /\ callers'[c].att = connectingPromise
     /\ Accepts
          => LET s == Len(sockets')
                 a == sockets'[s].att
             IN /\ \E v \in DOMAIN servers :
                     /\ servers[v].att = a
                     /\ servers[v].state = "listening"
                     /\ servers'[v].state = "closed"
                /\ AcceptedFor(a) = {s}
                /\ Len(channels') = Len(channels) + 1
                /\ channels'[Len(channels')].sock = s
                /\ clientConnection' = Len(channels')
                /\ attempts[a].state = "pending"
                /\ attempts'[a].state = "resolved"
                /\ attempts'[a].value = Len(channels')
     /\ \A v \in DOMAIN servers :
          (servers[v].state = "binding" /\ servers'[v].state = "failed")
            => /\ attempts'[servers[v].att].state = "rejected"
               /\ attempts'[servers[v].att].reason = BindError
     /\ \A v \in DOMAIN servers :
          servers[v].state \notin {"binding", "listening"}
            => servers'[v].state = servers[v].state
     /\ (targetPort' # targetPort /\ InFlight
           /\ attempts[connectingPromise].kind = "listen")
          => /\ servers'[attempts[connectingPromise].server].state = "closed"
             /\ attempts'[connectingPromise].state = "rejected"
             /\ attempts'[connectingPromise].reason = Canceled
     /\ \A e \in Errors :
          (SetError(e) /\ InFlight
             /\ attempts[connectingPromise].kind = "listen")
            => /\ servers'[attempts[connectingPromise].server].state = "closed"
               /\ attempts'[connectingPromise].state = "rejected"
               /\ attempts'[connectingPromise].reason = e]_vars

\* two awaitServerConnection() calls shared one listener, which accepted a
\* connection and was closed; both callers hold the channel over the accepted
\* socket
C17_Witness ==
  \E c, d \in Callers :
    /\ c # d
    /\ callers[c].op = "await" /\ callers[d].op = "await"
    /\ callers[c].pc = "done" /\ callers[d].pc = "done"
    /\ callers[c].att = callers[d].att
    /\ Len(servers) = 1
    /\ servers[1].state = "closed"
    /\ callers[c].conn # 0
    /\ callers[c].conn = callers[d].conn
    /\ sockets[channels[callers[c].conn].sock].kind = "accepted"

\* C18: the close of a socket that belongs to a superseded attempt leaves the
\* newer attempt alone: it clears neither the attempt reference nor the
\* channel of the newer attempt.
C18_StaleCloseHarmless ==
  [][\A s \in DOMAIN sockets :
       (Closes(s) /\ connectingPromise # 0 /\ sockets[s].att # connectingPromise)
         => /\ connectingPromise' = connectingPromise
            /\ (clientConnection # 0 /\ channels[clientConnection].sock # s)
                 => clientConnection' = clientConnection]_vars

\* C19: the initialized flag is set only while a channel exists.
C19_InitializedNeedsChannel ==
  initialized => clientConnection # 0

\* C20: while a channel exists no step creates an attempt or opens a listener.
C20_NoAttemptWhileConnected ==
  [][clientConnection # 0 => /\ Len(attempts') = Len(attempts)
                             /\ Len(servers') = Len(servers)]_vars

====
